---- MODULE Spec2Model ----
(***************************************************************************)
(* Model of supermdx, a language server for MDX documents with partial     *)
(* references: position-based navigation of the syntax tree (ast.rs,       *)
(* nodes.rs), resolution of a partial reference against the configured     *)
(* search directories (nodes/partials.rs, config.rs) and the document      *)
(* store driven by the LSP handlers (main.rs).                             *)
(***************************************************************************)
EXTENDS Integers, Sequences, FiniteSets, TLC

VARIABLES
    tree,        \* ast.rs: the `ast` argument of get_ancestor_chain
    position,    \* ast.rs: the `position` argument (zero-based line, character)
    chain,       \* ast.rs: the Vec<&Node> returned by get_ancestor_chain
    mchain,      \* ast.rs: the `ancestor_chain` argument of find_deepest_match
    mtest,       \* ast.rs: the `test` argument, as the set of nodes it accepts
    mresult,     \* ast.rs: the Option<&Node> returned by find_deepest_match
    config,      \* config.rs: the ConfigValues behind Config's mutex
    fs,          \* the paths that exist on the filesystem
    element,     \* partials.rs: the `node` argument of find_matching_partial
    presult,     \* partials.rs: what find_matching_partial returned and probed
    ast_map,     \* main.rs: Backend.ast_map, document identifier -> Option<Node>
    handlers,    \* main.rs: the handler calls, in the order the transport delivered them
    alive,       \* FALSE once a handler has panicked
    config_toml, \* the content of the workspace's .supermdx.toml, as read and parsed
    mutex,       \* config.rs: the Mutex of Config, None or Some(the call holding the guard)
    updating,    \* main.rs: the initialize_config call and how far its update has got
    resolving,   \* partials.rs: the find_matching_partial calls and how far each has got
    held,        \* the ConfigValues Config has held while no update was under way
    contained    \* nodes.rs: how a contains_position call on `tree` and `position` ended

astVars == <<tree, position, chain>>
matchVars == <<mchain, mtest, mresult>>
partialVars == <<config, fs, element, presult>>
serverVars == <<ast_map, handlers, alive, config_toml>>
lockVars == <<mutex, updating, resolving, held>>
containsVars == <<contained>>
vars == <<astVars, matchVars, partialVars, serverVars, lockVars, containsVars>>

\* Option<T>: None is the empty sequence, Some(x) the one-element sequence
None == <<>>
Some(x) == <<x>>
Unwrap(o) == o[1]

(***************************************************************************)
(* Syntax tree (markdown::mdast::Node as used by nodes.rs and ast.rs)      *)
(***************************************************************************)

\* Bounds on the syntax trees explored: the number of nodes of a tree and the
\* number of lines its spans range over.
MaxNodes == 3
MaxLine == 2

Point(l, c) == [line |-> l, column |-> c]

\* unist points are ordered by document order
PointLeq(p, q) == p.line < q.line \/ (p.line = q.line /\ p.column <= q.column)

\* Node::position(): Some(Position {start, end}) with start before end, or None
SpansOver(lines, columns) ==
    LET pts == { Point(l, c) : l \in lines, c \in columns }
    IN { Some([start |-> sp[1], end |-> sp[2]]) :
             sp \in { pq \in pts \X pts : PointLeq(pq[1], pq[2]) } }

\* A node: its kind, position() and children() (None for the leaf kinds).
MkNode(k, sp, kids) == [kind |-> k, position |-> sp, children |-> kids]

\* The shapes of the ordered trees of n nodes, nodes numbered in document
\* (pre-)order from the root 1: par[i] is the parent of node i, which is node
\* i - 1 or one of its ancestors.
RECURSIVE IsAncestorOrSelf(_, _, _)
IsAncestorOrSelf(par, a, i) ==
    IF a = i THEN TRUE
    ELSE IF i = 1 THEN FALSE
    ELSE IsAncestorOrSelf(par, a, par[i])

Shapes(n) ==
    { par \in [2..n -> 1..n] :
        \A i \in 2..n : par[i] < i /\ IsAncestorOrSelf(par, par[i], i - 1) }

\* the children of node i, in order
RECURSIVE ChildrenFrom(_, _, _, _)
ChildrenFrom(n, par, i, j) ==
    IF j > n THEN <<>>
    ELSE IF par[j] = i THEN <<j>> \o ChildrenFrom(n, par, i, j + 1)
    ELSE ChildrenFrom(n, par, i, j + 1)

\* The tree of shape par whose node i has position sps[i]: a Root over
\* Paragraph nodes (children() is Some) and Text leaves (children() is None).
RECURSIVE BuildNode(_, _, _, _)
BuildNode(n, par, sps, i) ==
    LET kids == ChildrenFrom(n, par, i, i + 1)
        built == [k \in 1..Len(kids) |-> BuildNode(n, par, sps, kids[k])]
    IN IF i = 1 THEN MkNode("Root", sps[i], Some(built))
       ELSE IF kids = <<>> THEN MkNode("Text", sps[i], None)
       ELSE MkNode("Paragraph", sps[i], Some(built))

\* Arbitrary trees: any node may lack a position, spans need not nest.  Two
\* columns give every node both outcomes of the column test at each cursor.
Lines == 1..MaxLine
Columns == 1..2
OptSpans == SpansOver(Lines, Columns) \cup {None}

IsTreeOver(t, spans, maxNodes) ==
    \E n \in 1..maxNodes : \E par \in Shapes(n) : \E sps \in [1..n -> spans] :
        t = BuildNode(n, par, sps, 1)

\* lsp_types::Position: zero-based line and character
PositionsOver(lines, columns) ==
    { [line |-> l - 1, character |-> c - 1] : l \in lines, c \in columns }
\* the cursor also visits a third column, past the end column of a short line
CursorColumns == 1..3
Positions == PositionsOver(Lines, CursorColumns)

\* u32::MAX, the largest line and character of an lsp_types::Position; the
\* 32 bits are scaled down so that the cursor can visit the whole range.
U32_MAX == 3

\* the u32 sum x + y as a build without overflow checks computes it
wrapping_add(x, y) == (x + y) % (U32_MAX + 1)

\* Variant of contains_position that compares the cursor with the start and
\* the end of the span in document order.
contains_position_in_document_order(node, pos) ==
    IF node.position = None
    THEN FALSE
    ELSE LET p == Unwrap(node.position)
             cursor == Point(wrapping_add(pos.line, 1), wrapping_add(pos.character, 1))
         IN PointLeq(p.start, cursor) /\ PointLeq(cursor, p.end)

\* NodeExt::contains_position, as it returns
contains_position(node, pos) ==
    IF node.position = None
    THEN FALSE
    ELSE LET p == Unwrap(node.position)
         IN /\ p.start.line <= wrapping_add(pos.line, 1)
            /\ p.end.line >= wrapping_add(pos.line, 1)
            /\ p.start.column <= wrapping_add(pos.character, 1)
            /\ p.end.column >= wrapping_add(pos.character, 1)

\* NodeExt::contains_position in a build with overflow checks: whether an
\* addition it evaluates panics (&& evaluates the column comparisons only
\* once the line comparisons hold)
contains_position_overflows(node, pos) ==
    IF node.position = None
    THEN FALSE
    ELSE LET p == Unwrap(node.position)
         IN \/ pos.line = U32_MAX
            \/ /\ p.start.line <= pos.line + 1
               /\ p.end.line >= pos.line + 1
               /\ pos.character = U32_MAX

PARTIAL == "$Partial"

\* NodeExt::is_partial
is_partial(node) ==
    IF node.kind = "MdxJsxFlowElement"
    THEN IF node.name = None THEN FALSE ELSE Unwrap(node.name) = PARTIAL
    ELSE FALSE

\* A reference &Node into a tree is the path of child indices leading to it.
RECURSIVE NodeAt(_, _)
NodeAt(ast, ref) ==
    IF ref = <<>> THEN ast ELSE NodeAt(Unwrap(ast.children)[Head(ref)], Tail(ref))

\* Variant of FindChild that keeps the last matching child instead of the first.
RECURSIVE FindChildLast(_, _, _)
FindChildLast(children, pos, i) ==
    IF i > Len(children) THEN None
    ELSE LET later == FindChildLast(children, pos, i + 1)
         IN IF later # None THEN later
            ELSE IF contains_position(children[i], pos) THEN Some(i)
            ELSE None

\* children.iter().find(|child| child.contains_position(position)), from index i
RECURSIVE FindChild(_, _, _)
FindChild(children, pos, i) ==
    IF i > Len(children) THEN None
    ELSE IF contains_position(children[i], pos) THEN Some(i)
    ELSE FindChild(children, pos, i + 1)

\* the while loop of get_ancestor_chain
RECURSIVE Descend(_, _, _, _)
Descend(ast, ref, pos, acc) ==
    LET node == NodeAt(ast, ref)
        pushed == Append(acc, ref)
        next == IF node.children = None THEN None
                ELSE FindChild(Unwrap(node.children), pos, 1)
    IN IF next = None THEN pushed
       ELSE Descend(ast, Append(ref, Unwrap(next)), pos, pushed)

get_ancestor_chain(ast, pos) ==
    IF ~contains_position(ast, pos) THEN <<>>
    ELSE Descend(ast, <<>>, pos, <<>>)

\* Variant of RevScan that scans from the first element and so returns the
\* shallowest match.
RECURSIVE FwdScan(_, _, _)
FwdScan(ch, test, i) ==
    LET j == Len(ch) - i + 1
    IN IF i = 0 THEN None
       ELSE IF ch[j] \in test THEN Some(ch[j])
       ELSE FwdScan(ch, test, i - 1)

\* for ancestor in ancestor_chain.iter().rev(), from index i down to 1
RECURSIVE RevScan(_, _, _)
RevScan(ch, test, i) ==
    IF i = 0 THEN None
    ELSE IF ch[i] \in test THEN Some(ch[i])
    ELSE RevScan(ch, test, i - 1)

\* test is given as the set of chain elements the predicate holds of
find_deepest_match(ch, test) == RevScan(ch, test, Len(ch))

(***************************************************************************)
(* Paths, the filesystem and Config (config.rs, nodes/partials.rs)         *)
(***************************************************************************)

\* PathBuf: absolute or relative, with its components
AbsPath(parts) == [abs |-> TRUE, parts |-> parts]
RelPath(parts) == [abs |-> FALSE, parts |-> parts]

\* Path::join: an absolute argument replaces the receiver
Join(a, b) == IF b.abs THEN b ELSE [abs |-> a.abs, parts |-> a.parts \o b.parts]

\* Path::exists against the set of existing absolute paths
Exists(files, path) == path.abs /\ path.parts \in files

\* Url::from_file_path: Err (None here) unless the path is absolute
UrlFromFilePath(path) ==
    IF path.abs THEN Some([scheme |-> "file", path |-> path.parts]) ELSE None

\* ConfigValues
ConfigValues(dirs, root) == [partials_dirs |-> dirs, workspace_root |-> root]

\* #[derive(Default)] ConfigValues
ConfigDefault == ConfigValues(<<>>, None)

\* InitializeParams.root_uri
RootUris ==
    { None,
      Some([scheme |-> "invalid", path |-> <<"url">>]),
      Some([scheme |-> "file", path |-> <<"w">>]) }

\* Variant of ToFilePath that takes the path of a URL of any scheme.
ToFilePathAnyScheme(url) == Some(AbsPath(url.path))

\* Url::to_file_path: Err (None here) unless the scheme is file
ToFilePath(url) == IF url.scheme = "file" THEN Some(AbsPath(url.path)) ELSE None

CONFIG_FILE == ".supermdx.toml"

\* The config file as fs::read_to_string and toml::from_str find it: whether
\* it can be read, and the partials_dirs it parses to (None: the parse fails)
Toml(readable, parsed) == [readable |-> readable, parsed |-> parsed]
Unreadable == Toml(FALSE, None)
Malformed == Toml(TRUE, None)
ConfigTomls == { Unreadable, Malformed, Toml(TRUE, Some(<< RelPath(<<"a">>) >>)) }

\* ConfigValues::update: the values afterwards and whether it returned Ok
update(cfg, root_uri, files, toml) ==
    IF root_uri = None THEN [config |-> cfg, ok |-> FALSE]
    ELSE IF ToFilePath(Unwrap(root_uri)) = None THEN [config |-> cfg, ok |-> FALSE]
    ELSE LET workspace_root == Unwrap(ToFilePath(Unwrap(root_uri)))
             rooted == [cfg EXCEPT !.workspace_root = Some(workspace_root)]
             config_path == Join(workspace_root, RelPath(<<CONFIG_FILE>>))
         IN IF Exists(files, config_path)
            THEN IF ~toml.readable THEN [config |-> rooted, ok |-> FALSE]
                 ELSE IF toml.parsed = None THEN [config |-> rooted, ok |-> FALSE]
                 ELSE LET dirs == Unwrap(toml.parsed)
                      IN [config |->
                             [rooted EXCEPT !.partials_dirs =
                                 [k \in 1..Len(dirs) |-> Join(workspace_root, dirs[k])]],
                          ok |-> TRUE]
            ELSE [config |-> rooted, ok |-> FALSE]

\* AttributeContent::Property(MdxJsxAttribute {name, value}); value is None,
\* Some(AttributeValue::Literal(text)) or Some(AttributeValue::Expression(text))
Property(name, value) == [tag |-> "Property", name |-> name, value |-> value]
Literal(text) == [tag |-> "Literal", text |-> text]
Expression(text) == [tag |-> "Expression", text |-> text]

\* AttributeContent::Expression, a spread such as {...props}
SpreadAttribute == [tag |-> "Expression"]

\* Node::MdxJsxFlowElement
MkJsx(name, attributes, sp, kids) ==
    [kind |-> "MdxJsxFlowElement", name |-> name, attributes |-> attributes,
     position |-> sp, children |-> Some(kids)]

\* Variant of SrcFrom that takes the text of any `src` value, literal or not.
RECURSIVE SrcFromAnyValue(_, _)
SrcFromAnyValue(attributes, i) ==
    IF i > Len(attributes) THEN None
    ELSE LET attr == attributes[i]
         IN IF attr.tag = "Property" /\ attr.name = "src" /\ attr.value # None
            THEN Some(Unwrap(attr.value).text)
            ELSE SrcFromAnyValue(attributes, i + 1)

\* node.attributes.iter().find_map(..), from index i: the first `src` property
\* whose value is a string literal
RECURSIVE SrcFrom(_, _)
SrcFrom(attributes, i) ==
    IF i > Len(attributes) THEN None
    ELSE LET attr == attributes[i]
             mapped == IF attr.tag = "Property" /\ attr.name = "src"
                       THEN IF attr.value = None THEN None
                            ELSE IF Unwrap(attr.value).tag = "Literal"
                                 THEN Some(Unwrap(attr.value).text)
                                 ELSE None
                       ELSE None
         IN IF mapped # None THEN mapped ELSE SrcFrom(attributes, i + 1)

\* What a call returns: the Option<Url>, the existence checks it made, in
\* order, and whether it panicked instead of returning.
Outcome(result, probes) == [result |-> result, probes |-> probes, panicked |-> FALSE]
Panic(probes) == [result |-> None, probes |-> probes, panicked |-> TRUE]

\* Variant of ProbeDirs that walks the directories from the last to the first.
RECURSIVE ProbeDirsBackwards(_, _, _, _, _, _)
ProbeDirsBackwards(dirs, root, src, files, i, probed) ==
    LET k == Len(dirs) - i + 1
    IN IF i > Len(dirs) THEN Outcome(None, probed)
       ELSE LET dir_path == Join(root, dirs[k])
                partial_path == Join(dir_path, src)
            IN IF Exists(files, dir_path) /\ Exists(files, partial_path)
               THEN Outcome(UrlFromFilePath(partial_path), probed)
               ELSE ProbeDirsBackwards(dirs, root, src, files, i + 1, probed)

\* for dir in partials_dirs, from index i
RECURSIVE ProbeDirs(_, _, _, _, _, _)
ProbeDirs(dirs, root, src, files, i, probed) ==
    IF i > Len(dirs) THEN Outcome(None, probed)
    ELSE LET dir_path == Join(root, dirs[i])
             probed1 == Append(probed, dir_path)
         IN IF Exists(files, dir_path)
            THEN LET partial_path == Join(dir_path, src)
                     probed2 == Append(probed1, partial_path)
                 IN IF Exists(files, partial_path)
                    THEN LET url == UrlFromFilePath(partial_path)
                         IN IF url = None THEN Panic(probed2)
                            ELSE Outcome(url, probed2)
                    ELSE ProbeDirs(dirs, root, src, files, i + 1, probed2)
            ELSE ProbeDirs(dirs, root, src, files, i + 1, probed1)

\* Config::find_matching_partial, under the lock on the ConfigValues cfg
find_matching_partial(cfg, node, files) ==
    IF cfg.partials_dirs = <<>> \/ cfg.workspace_root = None
    THEN Outcome(None, <<>>)
    ELSE LET src == SrcFrom(node.attributes, 1)
         IN IF src = None THEN Outcome(None, <<>>)
            ELSE ProbeDirs(cfg.partials_dirs, Unwrap(cfg.workspace_root),
                           RelPath(<<Unwrap(src)>>), files, 1, <<>>)

(***************************************************************************)
(* SpecAst: get_ancestor_chain applied to every tree and cursor position   *)
(***************************************************************************)

IdleAst == tree = None /\ position = None /\ chain = None
IdleMatch == mchain = <<>> /\ mtest = {} /\ mresult = None
IdlePartial == config = ConfigDefault /\ fs = {} /\ element = None /\ presult = None
IdleServer ==
    ast_map = <<>> /\ handlers = <<>> /\ alive = TRUE /\ config_toml = Unreadable

\* Backend::initialize_config, as a call that has not been made or has got to pc
UpdateCall(pc, root_uri) == [pc |-> pc, root_uri |-> root_uri]

IdleLock ==
    mutex = None /\ updating = UpdateCall("idle", None) /\ resolving = <<>> /\ held = {}

IdleContains == contained = None

InitAst ==
    /\ IsTreeOver(tree, OptSpans, MaxNodes)
    /\ position = None
    /\ chain = None
    /\ IdleMatch
    /\ IdlePartial
    /\ IdleServer
    /\ IdleLock
    /\ IdleContains

GetAncestorChain ==
    /\ position = None
    /\ \E p \in Positions :
        /\ position' = Some(p)
        /\ chain' = Some(get_ancestor_chain(tree, p))
    /\ UNCHANGED <<tree, matchVars, partialVars, serverVars, lockVars, containsVars>>

NextAst == GetAncestorChain

SpecAst == InitAst /\ [][NextAst]_vars

\* the children of a node as a sequence, empty for the leaf kinds
ChildSeq(node) == IF node.children = None THEN <<>> ELSE Unwrap(node.children)

\* C1: get_ancestor_chain returns the empty sequence exactly when the root does
\* not contain the position; otherwise the chain starts at the root, each next
\* element is the first child of its predecessor that contains the position,
\* the last element has no child containing the position, and every element
\* contains the position (so a child without a span is never entered).
C1_AncestorChainIsFirstChildPath ==
    chain # None =>
        LET c == Unwrap(chain)
            p == Unwrap(position)
        IN /\ (c = <<>>) <=> ~contains_position(tree, p)
           /\ c # <<>> =>
                /\ c[1] = <<>>
                /\ \A i \in 1..(Len(c) - 1) :
                     LET kids == ChildSeq(NodeAt(tree, c[i]))
                     IN \E k \in 1..Len(kids) :
                            /\ c[i + 1] = Append(c[i], k)
                            /\ contains_position(kids[k], p)
                            /\ \A j \in 1..(k - 1) : ~contains_position(kids[j], p)
                /\ LET kids == ChildSeq(NodeAt(tree, c[Len(c)]))
                   IN \A k \in 1..Len(kids) : ~contains_position(kids[k], p)
                /\ \A i \in 1..Len(c) : contains_position(NodeAt(tree, c[i]), p)

\* C1 witness: the root has two children that both contain the position and
\* the chain went into the first of them.
C1_Witness ==
    /\ chain # None
    /\ Len(Unwrap(chain)) >= 2
    /\ Unwrap(chain)[2] = <<1>>
    /\ Len(ChildSeq(tree)) >= 2
    /\ contains_position(ChildSeq(tree)[1], Unwrap(position))
    /\ contains_position(ChildSeq(tree)[2], Unwrap(position))

(***************************************************************************)
(* SpecNested: get_ancestor_chain on the trees a grammar produces: every   *)
(* node has a span, a child's span lies within its parent's and siblings   *)
(* follow each other without overlap (document order of unist points).     *)
(***************************************************************************)

\* the references to all nodes of a tree
RECURSIVE Refs(_, _)
Refs(node, ref) ==
    {ref} \cup UNION { Refs(ChildSeq(node)[k], Append(ref, k)) : k \in 1..Len(ChildSeq(node)) }

PointLt(p, q) == PointLeq(p, q) /\ p # q

WellNested(t) ==
    \A ref \in Refs(t, <<>>) :
        LET node == NodeAt(t, ref)
            kids == ChildSeq(node)
        IN /\ node.position # None
           /\ \A k \in 1..Len(kids) :
                /\ kids[k].position # None
                /\ PointLeq(Unwrap(node.position).start, Unwrap(kids[k].position).start)
                /\ PointLeq(Unwrap(kids[k].position).end, Unwrap(node.position).end)

SiblingsDisjoint(t) ==
    \A ref \in Refs(t, <<>>) :
        LET kids == ChildSeq(NodeAt(t, ref))
        IN \A k \in 1..(Len(kids) - 1) :
            /\ kids[k].position # None
            /\ kids[k + 1].position # None
            /\ PointLt(Unwrap(kids[k].position).end, Unwrap(kids[k + 1].position).start)

InitNested ==
    /\ IsTreeOver(tree, SpansOver(Lines, CursorColumns), MaxNodes)
    /\ WellNested(tree)
    /\ SiblingsDisjoint(tree)
    /\ position = None
    /\ chain = None
    /\ IdleMatch
    /\ IdlePartial
    /\ IdleServer
    /\ IdleLock
    /\ IdleContains

SpecNested == InitNested /\ [][NextAst]_vars

\* the position, in the 1-based coordinates of the spans
CursorPoint(p) == Point(p.line + 1, p.character + 1)

\* P lies strictly inside node's span: the program's rule accepts it and it is
\* strictly between the span's start and end in document order.
StrictlyInside(node, p) ==
    /\ contains_position(node, p)
    /\ PointLt(Unwrap(node.position).start, CursorPoint(p))
    /\ PointLt(CursorPoint(p), Unwrap(node.position).end)

\* C2: in a well-nested tree with disjoint siblings, for a position strictly
\* inside the span of a node N and outside the span of every child of N, the
\* chain is non-empty and its last element is N.
C2_ChainEndsAtInnermost ==
    chain # None =>
        LET c == Unwrap(chain)
            p == Unwrap(position)
        IN \A ref \in Refs(tree, <<>>) :
            LET node == NodeAt(tree, ref)
                kids == ChildSeq(node)
            IN (/\ StrictlyInside(node, p)
                /\ \A k \in 1..Len(kids) : ~contains_position(kids[k], p))
               => (c # <<>> /\ c[Len(c)] = ref)

(***************************************************************************)
(* SpecMatch: find_deepest_match applied to every chain and predicate      *)
(***************************************************************************)

\* Bound on the length of the chains explored.
MaxChain == 3

\* the nodes the chains are made of, told apart by their kind
ChainKinds == {"List", "ListItem", "MdxJsxFlowElement"}
ChainNodes == { MkNode(k, None, None) : k \in ChainKinds }

InitMatch ==
    /\ IdleAst
    /\ IdlePartial
    /\ IdleServer
    /\ IdleLock
    /\ IdleContains
    /\ \E n \in 0..MaxChain : mchain \in [1..n -> ChainNodes]
    /\ mtest \in SUBSET ChainNodes
    /\ mresult = None

FindDeepestMatch ==
    /\ mresult = None
    /\ mresult' = Some(find_deepest_match(mchain, mtest))
    /\ UNCHANGED <<mchain, mtest, astVars, partialVars, serverVars, lockVars, containsVars>>

NextMatch == FindDeepestMatch

SpecMatch == InitMatch /\ [][NextMatch]_vars

\* the indices of the chain elements the predicate holds of
Hits(ch, test) == { i \in 1..Len(ch) : ch[i] \in test }

\* C3: find_deepest_match returns the element of greatest index that satisfies
\* the predicate, and none when the chain is empty or no element satisfies it.
C3_DeepestMatchIsLastHit ==
    mresult # None =>
        LET r == Unwrap(mresult)
            hits == Hits(mchain, mtest)
        IN IF hits = {}
           THEN r = None
           ELSE \E i \in hits : (\A j \in hits : j <= i) /\ r = Some(mchain[i])

\* C3 witness: two elements of different kinds satisfy the predicate and the
\* deeper one was returned.
C3_Witness ==
    /\ mresult # None
    /\ \E i, j \in Hits(mchain, mtest) :
        /\ i < j
        /\ mchain[i] # mchain[j]
        /\ \A k \in Hits(mchain, mtest) : k <= j
        /\ Unwrap(mresult) = Some(mchain[j])

(***************************************************************************)
(* SpecPartial: find_matching_partial applied to every configuration,      *)
(* filesystem and element                                                  *)
(***************************************************************************)

\* Bounds on the number of search directories and of attributes explored.
MaxDirs == 2
MaxAttrs == 2

WorkspaceRoot == AbsPath(<<"w">>)

\* search directories as the tests give them (relative) and as
\* ConfigValues::update stores them (joined to the workspace root)
SearchDirs ==
    { RelPath(<<"a">>), RelPath(<<"b">>), AbsPath(<<"w", "a">>), AbsPath(<<"w", "b">>) }

\* the paths that may exist; a filesystem holds a path only with its parents
AllFiles ==
    { <<"w">>, <<"w", "a">>, <<"w", "b">>,
      <<"w", "a", "x.mdx">>, <<"w", "b", "x.mdx">>, <<"w", "b", "y.mdx">> }
Filesystems ==
    { files \in SUBSET AllFiles :
        \A f \in files : Len(f) > 1 => SubSeq(f, 1, Len(f) - 1) \in files }

AttributeValues == { None, Some(Literal("x.mdx")), Some(Literal("y.mdx")), Some(Expression("x.mdx")) }
Attributes ==
    { Property(n, v) : n \in {"src", "title"}, v \in AttributeValues } \cup {SpreadAttribute}

InitPartial ==
    /\ IdleAst
    /\ IdleMatch
    /\ IdleServer
    /\ IdleLock
    /\ IdleContains
    /\ \E n \in 0..MaxDirs : \E dirs \in [1..n -> SearchDirs] :
       \E root \in {None, Some(WorkspaceRoot)} :
            config = ConfigValues(dirs, root)
    /\ fs \in Filesystems
    /\ \E n \in 0..MaxAttrs : \E attrs \in [1..n -> Attributes] :
            element = MkJsx(Some("$Partial"), attrs, None, <<>>)
    /\ presult = None

FindMatchingPartial ==
    /\ presult = None
    /\ presult' = Some(find_matching_partial(config, element, fs))
    /\ UNCHANGED <<config, fs, element, astVars, matchVars, serverVars, lockVars, containsVars>>

NextPartial == FindMatchingPartial

SpecPartial == InitPartial /\ [][NextPartial]_vars

\* the indices of the `src` properties of the element whose value is a literal
LiteralSrcs(node) ==
    { i \in 1..Len(node.attributes) :
        /\ node.attributes[i].tag = "Property"
        /\ node.attributes[i].name = "src"
        /\ node.attributes[i].value # None
        /\ Unwrap(node.attributes[i].value).tag = "Literal" }

\* the `src` of the element: the text of its first literal `src` property
SrcText(node) ==
    LET i == CHOOSE i \in LiteralSrcs(node) : \A j \in LiteralSrcs(node) : i <= j
    IN Unwrap(node.attributes[i].value).text

\* candidate = workspace_root / directory / src
Candidate(cfg, node, i) ==
    Join(Join(Unwrap(cfg.workspace_root), cfg.partials_dirs[i]), RelPath(<<SrcText(node)>>))

\* the indices of the search directories whose candidate exists
DirsWithCandidate(cfg, node, files) ==
    { i \in 1..Len(cfg.partials_dirs) : Exists(files, Candidate(cfg, node, i)) }

\* C4: with a workspace root, a `src` literal and some directory holding the
\* candidate, find_matching_partial returns workspace_root/directory/src for
\* the first configured directory in which the candidate exists.
C4_FirstDirectoryWins ==
    (/\ presult # None
     /\ config.workspace_root # None
     /\ LiteralSrcs(element) # {}
     /\ DirsWithCandidate(config, element, fs) # {})
    => \E i \in DirsWithCandidate(config, element, fs) :
        /\ \A j \in DirsWithCandidate(config, element, fs) : i <= j
        /\ ~Unwrap(presult).panicked
        /\ Unwrap(presult).result =
             Some([scheme |-> "file", path |-> Candidate(config, element, i).parts])

\* C4 witness: two different directories both hold the file and the call
\* returned the one of the directory configured first.
C4_Witness ==
    /\ presult # None
    /\ config.workspace_root # None
    /\ LiteralSrcs(element) # {}
    /\ Len(config.partials_dirs) = 2
    /\ DirsWithCandidate(config, element, fs) = {1, 2}
    /\ Candidate(config, element, 1) # Candidate(config, element, 2)
    /\ Unwrap(presult).result =
         Some([scheme |-> "file", path |-> Candidate(config, element, 1).parts])

\* C5: find_matching_partial returns none, without panicking, when the
\* directory list is empty, the workspace root is unset, the element has no
\* `src` property with a string literal value, or the file is in no search
\* directory; in the first two cases it makes no existence check at all.
C5_FailureCasesReturnNone ==
    presult # None =>
        LET out == Unwrap(presult)
            unconfigured == config.partials_dirs = <<>> \/ config.workspace_root = None
        IN /\ unconfigured => out.probes = <<>>
           /\ (\/ unconfigured
               \/ LiteralSrcs(element) = {}
               \/ DirsWithCandidate(config, element, fs) = {})
              => (out.result = None /\ ~out.panicked)

\* C5 witness: a configured resolver given an element whose only `src` value
\* is an expression naming a file that exists in a search directory.
C5_Witness ==
    /\ presult # None
    /\ config.partials_dirs # <<>>
    /\ config.workspace_root # None
    /\ LiteralSrcs(element) = {}
    /\ \E i \in 1..Len(element.attributes) :
        /\ element.attributes[i] = Property("src", Some(Expression("x.mdx")))
        /\ \E d \in 1..Len(config.partials_dirs) :
            Exists(fs, Join(Join(Unwrap(config.workspace_root), config.partials_dirs[d]),
                            RelPath(<<"x.mdx">>)))
    /\ Unwrap(presult).result = None

(***************************************************************************)
(* Spec: the language server.  The transport delivers notifications and    *)
(* requests; each starts a call of its handler of Backend, and the calls   *)
(* in flight run concurrently, interleaving at their await points.         *)
(***************************************************************************)

\* Bound on the number of messages the transport delivers.
MaxMessages == 2

Uris == {"file:///w/one.mdx", "file:///w/two.mdx"}

Span(sl, sc, el, ec) == Some([start |-> Point(sl, sc), end |-> Point(el, ec)])

\* "# H\n\n<$Partial src=\"x.mdx\" />"
DocPartial == "partial"
TreePartial ==
    MkNode("Root", Span(1, 1, 3, 25), Some(<<
        MkNode("Heading", Span(1, 1, 1, 4), Some(<< MkNode("Text", Span(1, 3, 1, 4), None) >>)),
        MkJsx(Some(PARTIAL), << Property("src", Some(Literal("x.mdx"))) >>, Span(3, 1, 3, 25), <<>>)
    >>))

\* "# Hello World\n\n- Item 1"
DocList == "list"
TreeList ==
    MkNode("Root", Span(1, 1, 3, 9), Some(<<
        MkNode("Heading", Span(1, 1, 1, 14), Some(<< MkNode("Text", Span(1, 3, 1, 14), None) >>)),
        MkNode("List", Span(3, 1, 3, 9), Some(<<
            MkNode("ListItem", Span(3, 1, 3, 9), Some(<<
                MkNode("Paragraph", Span(3, 3, 3, 9), Some(<<
                    MkNode("Text", Span(3, 3, 3, 9), None) >>)) >>)) >>))
    >>))

\* "<$Partial": an unclosed tag, which the MDX grammar rejects
DocBroken == "broken"

Texts == {DocPartial, DocList, DocBroken}

\* to_mdast(text, &get_parser_options()): Ok(tree) as Some(tree), Err as None
to_mdast(text) ==
    CASE text = DocPartial -> Some(TreePartial)
      [] text = DocList -> Some(TreeList)
      [] OTHER -> None

\* the cursor positions of the definition requests: in the heading, in line 3
CursorPositions == { [line |-> 0, character |-> 2], [line |-> 2, character |-> 4] }

\* A handler call: the message that started it, where it stands (pc) and, once
\* it is done, its response.
Call(kind, uri, text, pos, root_uri, pc) ==
    [kind |-> kind, uri |-> uri, text |-> text, pos |-> pos, root_uri |-> root_uri,
     pc |-> pc, response |-> None]

Messages ==
    { Call(k, u, Some(t), None, None, "log") :
        k \in {"did_open", "did_change"}, u \in Uris, t \in Texts }
    \cup { Call("did_close", u, None, None, None, "log") : u \in Uris }
    \cup { Call("goto_definition", u, None, Some(p), None, "run") :
            u \in Uris, p \in CursorPositions }
    \cup { Call("initialize", None, None, None, r, "run") : r \in RootUris }

\* the workspace on disk: a partials directory holding x.mdx, with or without
\* a config file
WorkspaceFiles == { <<"w">>, <<"w", "a">>, <<"w", "a", "x.mdx">> }

Init ==
    /\ IdleAst
    /\ IdleMatch
    /\ element = None
    /\ presult = None
    /\ config = ConfigDefault
    /\ \/ fs = WorkspaceFiles /\ config_toml = Unreadable
       \/ fs = WorkspaceFiles \cup { <<"w", CONFIG_FILE>> } /\ config_toml \in ConfigTomls
    /\ ast_map = [u \in Uris |-> None]
    /\ handlers = <<>>
    /\ alive = TRUE
    /\ IdleLock
    /\ IdleContains

\* Server::new(stdin, stdout, socket).serve(service): the next message arrives
\* and its handler is called.  The initialize request comes at most once in a
\* server's lifetime.
Deliver ==
    /\ alive
    /\ Len(handlers) < MaxMessages
    /\ \E m \in Messages :
        /\ m.kind = "initialize" =>
                \A k \in 1..Len(handlers) : handlers[k].kind # "initialize"
        /\ handlers' = Append(handlers, m)
    /\ UNCHANGED <<ast_map, alive, config_toml, config, fs, element, presult, astVars, matchVars, lockVars, containsVars>>

Running(i, kind, pc) ==
    /\ alive
    /\ i \in 1..Len(handlers)
    /\ handlers[i].kind = kind
    /\ handlers[i].pc = pc

\* did_open up to its call of on_change: client.log_message(..).await
DidOpen(i) ==
    /\ Running(i, "did_open", "log")
    /\ handlers' = [handlers EXCEPT ![i].pc = "on_change"]
    /\ UNCHANGED <<ast_map, alive, config_toml, config, fs, element, presult, astVars, matchVars, lockVars, containsVars>>

\* did_change up to its call of on_change: client.log_message(..).await
DidChange(i) ==
    /\ Running(i, "did_change", "log")
    /\ handlers' = [handlers EXCEPT ![i].pc = "on_change"]
    /\ UNCHANGED <<ast_map, alive, config_toml, config, fs, element, presult, astVars, matchVars, lockVars, containsVars>>

\* Variant of Insert that stores the parse result even when the parse failed,
\* which drops the entry.
InsertOrDrop(map, uri, ast) == [map EXCEPT ![uri] = ast]

\* Variant of Insert that keeps an entry that is already there.
InsertIfAbsent(map, uri, ast) ==
    IF ast # None /\ map[uri] = None THEN [map EXCEPT ![uri] = ast] ELSE map

\* on_change's use of the parse: ast_map.insert only if ast.is_ok()
Insert(map, uri, ast) == IF ast # None THEN [map EXCEPT ![uri] = ast] ELSE map

\* Backend::on_change, which has no await point
OnChange(i) ==
    /\ alive
    /\ i \in 1..Len(handlers)
    /\ handlers[i].pc = "on_change"
    /\ ast_map' = Insert(ast_map, handlers[i].uri, to_mdast(Unwrap(handlers[i].text)))
    /\ handlers' = [handlers EXCEPT ![i].pc = "done"]
    /\ UNCHANGED <<alive, config_toml, config, fs, element, presult, astVars, matchVars, lockVars, containsVars>>

\* did_close: client.log_message(..).await and nothing else
DidClose(i) ==
    /\ Running(i, "did_close", "log")
    /\ handlers' = [handlers EXCEPT ![i].pc = "done"]
    /\ UNCHANGED <<ast_map, alive, config_toml, config, fs, element, presult, astVars, matchVars, lockVars, containsVars>>

\* the Location of a resolved partial: the file, with Range::default()
Location(url) == [uri |-> url, range |-> "default"]

\* What a handler call ends with: a panic, or the value it returned
Returned(value) == [panicked |-> FALSE, value |-> value]
Panicked == [panicked |-> TRUE, value |-> None]

\* the body of goto_definition; what it returns is the Option<Location> of
\* the jsonrpc Ok
definition(map, cfg, files, uri, pos) ==
    IF map[uri] = None THEN Panicked
    ELSE LET ast == Unwrap(map[uri])
             ancestor_chain == get_ancestor_chain(ast, pos)
             matched == find_deepest_match(ancestor_chain,
                            { ref \in { ancestor_chain[k] : k \in 1..Len(ancestor_chain) } :
                                is_partial(NodeAt(ast, ref)) })
         IN IF matched # None /\ NodeAt(ast, Unwrap(matched)).kind = "MdxJsxFlowElement"
            THEN LET out == find_matching_partial(cfg, NodeAt(ast, Unwrap(matched)), files)
                 IN IF out.panicked THEN Panicked
                    ELSE IF out.result = None THEN Returned(None)
                    ELSE Returned(Some(Location(Unwrap(out.result))))
            ELSE Returned(None)

\* Backend::goto_definition, which has no await point
GotoDefinition(i) ==
    /\ Running(i, "goto_definition", "run")
    /\ LET r == definition(ast_map, config, fs, handlers[i].uri, Unwrap(handlers[i].pos))
       IN /\ handlers' = [handlers EXCEPT ![i].pc = "done", ![i].response = Some(r)]
          /\ alive' = ~r.panicked
    /\ UNCHANGED <<ast_map, config_toml, config, fs, element, presult, astVars, matchVars, lockVars, containsVars>>

\* Backend::initialize: initialize_config, whose result is dropped
Initialize(i) ==
    /\ Running(i, "initialize", "run")
    /\ config' = update(config, handlers[i].root_uri, fs, config_toml).config
    /\ handlers' = [handlers EXCEPT ![i].pc = "done", ![i].response = Some(Returned(None))]
    /\ UNCHANGED <<ast_map, alive, config_toml, fs, element, presult, astVars, matchVars, lockVars, containsVars>>

Next ==
    \/ Deliver
    \/ \E i \in 1..MaxMessages :
        \/ DidOpen(i)
        \/ DidChange(i)
        \/ OnChange(i)
        \/ DidClose(i)
        \/ GotoDefinition(i)
        \/ Initialize(i)

Spec == Init /\ [][Next]_vars

\* the calls of did_open and did_change
IsEdit(call) == call.kind \in {"did_open", "did_change"}

\* call i takes its on_change step
OnChangeStep(i) ==
    /\ i \in 1..Len(handlers)
    /\ handlers[i].pc = "on_change"
    /\ handlers'[i].pc = "done"

\* C6: a definition request for an identifier with no tree in the store
\* completes with an empty result and does not panic.
C6_UnknownDocumentYieldsEmpty ==
    \A i \in 1..Len(handlers) :
        (/\ handlers[i].kind = "goto_definition"
         /\ handlers[i].pc = "done"
         /\ ast_map[handlers[i].uri] = None)
        => (alive /\ handlers[i].response = Some(Returned(None)))

\* C7: an on_change whose text fails to parse leaves the whole store as it was.
C7_FailedParseKeepsStore ==
    [][\A i \in 1..MaxMessages :
        (OnChangeStep(i) /\ to_mdast(Unwrap(handlers[i].text)) = None)
        => ast_map' = ast_map]_vars

\* C7 witness: an edit with broken text has run on an identifier that another
\* edit had given a tree, and the tree is still stored.
C7_Witness ==
    \E i, j \in 1..Len(handlers) :
        /\ i < j
        /\ IsEdit(handlers[i]) /\ IsEdit(handlers[j])
        /\ handlers[i].uri = handlers[j].uri
        /\ handlers[i].pc = "done" /\ handlers[j].pc = "done"
        /\ to_mdast(Unwrap(handlers[i].text)) # None
        /\ to_mdast(Unwrap(handlers[j].text)) = None
        /\ ast_map[handlers[i].uri] = to_mdast(Unwrap(handlers[i].text))

\* C8: when a close notification for an identifier has been handled, the store
\* holds no tree for that identifier.
C8_CloseRemovesTree ==
    [][\A i \in 1..MaxMessages :
        (/\ i \in 1..Len(handlers)
         /\ handlers[i].kind = "did_close"
         /\ handlers[i].pc = "log"
         /\ handlers'[i].pc = "done")
        => ast_map'[handlers[i].uri] = None]_vars

\* C9: when two change notifications of one identifier that both parse have
\* been handled and no edit of that identifier was delivered after them, the
\* store holds the tree of the one delivered later.
C9_EditsAppliedInDeliveryOrder ==
    \A a, b \in 1..Len(handlers) :
        (/\ a < b
         /\ handlers[a].kind = "did_change" /\ handlers[b].kind = "did_change"
         /\ handlers[a].uri = handlers[b].uri
         /\ to_mdast(Unwrap(handlers[a].text)) # None
         /\ to_mdast(Unwrap(handlers[b].text)) # None
         /\ handlers[a].pc = "done" /\ handlers[b].pc = "done"
         /\ \A c \in (b + 1)..Len(handlers) :
                ~(IsEdit(handlers[c]) /\ handlers[c].uri = handlers[b].uri))
        => ast_map[handlers[b].uri] = to_mdast(Unwrap(handlers[b].text))

\* C10: an on_change whose text parses makes the store hold exactly that tree
\* for its identifier, replacing any earlier one, and leaves the entry of
\* every other identifier as it was.
C10_PutReplacesOnlyItsEntry ==
    [][\A i \in 1..MaxMessages :
        (OnChangeStep(i) /\ to_mdast(Unwrap(handlers[i].text)) # None)
        => /\ ast_map'[handlers[i].uri] = to_mdast(Unwrap(handlers[i].text))
           /\ \A u \in Uris \ {handlers[i].uri} : ast_map'[u] = ast_map[u]]_vars

\* C10 witness: two edits of one identifier with different trees have both
\* run and the store holds the tree of one of them alone.
C10_Witness ==
    \E i, j \in 1..Len(handlers) :
        /\ i # j
        /\ IsEdit(handlers[i]) /\ IsEdit(handlers[j])
        /\ handlers[i].uri = handlers[j].uri
        /\ handlers[i].pc = "done" /\ handlers[j].pc = "done"
        /\ to_mdast(Unwrap(handlers[i].text)) # None
        /\ to_mdast(Unwrap(handlers[j].text)) # None
        /\ handlers[i].text # handlers[j].text
        /\ ast_map[handlers[j].uri] = to_mdast(Unwrap(handlers[j].text))

\* the initialize call i has no usable root URI
RootUriFails(i) ==
    \/ handlers[i].root_uri = None
    \/ Unwrap(handlers[i].root_uri).scheme # "file"

\* the config file of the workspace is missing, unreadable or malformed
ConfigFileFails ==
    \/ <<"w", CONFIG_FILE>> \notin fs
    \/ ~config_toml.readable
    \/ config_toml.parsed = None

\* the partial reference of DocPartial
PartialElement == NodeAt(TreePartial, <<2>>)

\* C11: once an initialization has failed (no or invalid root URI, config file
\* missing, unreadable or malformed) the call has returned normally, the
\* search directory list is empty, resolving a partial whose file exists in
\* the workspace returns none, every definition request answered so far is
\* empty, and after a root URI failure the workspace root is unset.
C11_FailedInitializationLeavesNoSearchPath ==
    \A i \in 1..Len(handlers) :
        (/\ handlers[i].kind = "initialize"
         /\ handlers[i].pc = "done"
         /\ (RootUriFails(i) \/ ConfigFileFails))
        => /\ handlers[i].response = Some(Returned(None))
           /\ config.partials_dirs = <<>>
           /\ find_matching_partial(config, PartialElement, fs).result = None
           /\ \A j \in 1..Len(handlers) :
                (handlers[j].kind = "goto_definition" /\ handlers[j].pc = "done")
                => handlers[j].response \in {Some(Returned(None)), Some(Panicked)}
           /\ RootUriFails(i) => config.workspace_root = None

\* C11 witness: an initialization with a good root URI has failed on a
\* malformed config file: the root is set and the directory list is empty.
C11_Witness ==
    \E i \in 1..Len(handlers) :
        /\ handlers[i].kind = "initialize"
        /\ handlers[i].pc = "done"
        /\ ~RootUriFails(i)
        /\ <<"w", CONFIG_FILE>> \in fs
        /\ config_toml = Malformed
        /\ config.workspace_root = Some(WorkspaceRoot)
        /\ config.partials_dirs = <<>>

(***************************************************************************)
(* SpecConfig: one initialize_config call and find_matching_partial calls  *)
(* on the same Config, interleaved step by step as threads may run them    *)
(***************************************************************************)

MaxResolves == 2

\* Variant of Unlocked under which the mutex never makes a caller wait.
UnlockedAlways(m) == TRUE

\* Mutex::lock returns once no other caller holds the guard
Unlocked(m) == m = None

\* the caller identifier of the initialize_config call as holder of the guard
Updater == 0

\* a find_matching_partial call: `arrived` is how far the update had got when
\* the call was made, `checked` and `probed` are the ConfigValues behind the
\* guard at the guard clause and at the directory loop
ResolveCall(pc, arrived, checked, probed, result) ==
    [pc |-> pc, arrived |-> arrived, checked |-> checked, probed |-> probed,
     result |-> result]

InitConfig ==
    /\ IdleAst
    /\ IdleMatch
    /\ element = PartialElement
    /\ presult = None
    /\ config = ConfigDefault
    /\ \/ fs = WorkspaceFiles /\ config_toml = Unreadable
       \/ fs = WorkspaceFiles \cup { <<"w", CONFIG_FILE>> } /\ config_toml \in ConfigTomls
    /\ ast_map = <<>>
    /\ handlers = <<>>
    /\ alive = TRUE
    /\ mutex = None
    /\ updating = UpdateCall("idle", None)
    /\ resolving = <<>>
    /\ held = { ConfigDefault }
    /\ IdleContains

\* self.initialize_config(&params) is called, once in the server's lifetime
InitializeConfig ==
    /\ updating.pc = "idle"
    /\ \E root_uri \in RootUris : updating' = UpdateCall("lock", root_uri)
    /\ UNCHANGED <<mutex, resolving, held, astVars, matchVars, partialVars, serverVars, containsVars>>

\* self.config.0.lock().unwrap()
UpdateLock ==
    /\ updating.pc = "lock"
    /\ Unlocked(mutex)
    /\ mutex' = Some(Updater)
    /\ updating' = [updating EXCEPT !.pc = "root"]
    /\ UNCHANGED <<resolving, held, astVars, matchVars, partialVars, serverVars, containsVars>>

\* update, up to self.workspace_root = Some(workspace_root.clone()); an Err
\* returns and drops the guard
UpdateRoot ==
    /\ updating.pc = "root"
    /\ IF \/ updating.root_uri = None
          \/ ToFilePath(Unwrap(updating.root_uri)) = None
       THEN /\ updating' = [updating EXCEPT !.pc = "done"]
            /\ mutex' = None
            /\ held' = held \cup { config }
            /\ UNCHANGED config
       ELSE /\ config' = [config EXCEPT
                            !.workspace_root = ToFilePath(Unwrap(updating.root_uri))]
            /\ updating' = [updating EXCEPT !.pc = "dirs"]
            /\ UNCHANGED <<mutex, held, containsVars>>
    /\ UNCHANGED <<resolving, fs, element, presult, astVars, matchVars, serverVars, containsVars>>

\* update, from the config file checks to its return, which drops the guard
UpdateDirs ==
    /\ updating.pc = "dirs"
    /\ config' = update(config, updating.root_uri, fs, config_toml).config
    /\ updating' = [updating EXCEPT !.pc = "done"]
    /\ mutex' = None
    /\ held' = held \cup { config' }
    /\ UNCHANGED <<resolving, fs, element, presult, astVars, matchVars, serverVars, containsVars>>

\* config.find_matching_partial(node) is called
Resolve ==
    /\ Len(resolving) < MaxResolves
    /\ resolving' = Append(resolving,
                           ResolveCall("lock", updating.pc, None, None, None))
    /\ UNCHANGED <<mutex, updating, held, astVars, matchVars, partialVars, serverVars, containsVars>>

\* let config = self.0.lock().unwrap()
ResolveLock(k) ==
    /\ resolving[k].pc = "lock"
    /\ Unlocked(mutex)
    /\ mutex' = Some(k)
    /\ resolving' = [resolving EXCEPT ![k].pc = "check"]
    /\ UNCHANGED <<updating, held, astVars, matchVars, partialVars, serverVars, containsVars>>

\* if partials_dirs.is_empty() || workspace_root.is_none() { return None }
ResolveCheck(k) ==
    /\ resolving[k].pc = "check"
    /\ IF config.partials_dirs = <<>> \/ config.workspace_root = None
       THEN /\ resolving' = [resolving EXCEPT
                               ![k].pc = "done",
                               ![k].checked = Some(config),
                               ![k].result = Some(None)]
            /\ mutex' = None
       ELSE /\ resolving' = [resolving EXCEPT
                               ![k].pc = "probe",
                               ![k].checked = Some(config)]
            /\ UNCHANGED mutex
    /\ UNCHANGED <<updating, held, astVars, matchVars, partialVars, serverVars, containsVars>>

\* the src attribute and the directory loop, to the return that drops the guard
ResolveProbe(k) ==
    /\ resolving[k].pc = "probe"
    /\ resolving' = [resolving EXCEPT
                       ![k].pc = "done",
                       ![k].probed = Some(config),
                       ![k].result =
                           Some(find_matching_partial(config, element, fs).result)]
    /\ mutex' = None
    /\ UNCHANGED <<updating, held, astVars, matchVars, partialVars, serverVars, containsVars>>

NextConfig ==
    \/ InitializeConfig
    \/ UpdateLock
    \/ UpdateRoot
    \/ UpdateDirs
    \/ Resolve
    \/ \E k \in 1..Len(resolving) : ResolveLock(k)
    \/ \E k \in 1..Len(resolving) : ResolveCheck(k)
    \/ \E k \in 1..Len(resolving) : ResolveProbe(k)

SpecConfig == InitConfig /\ [][NextConfig]_vars

\* C12: every finished partial resolution ran against one point-in-time view
\* of Config: the root and directory list behind its guard were the same at
\* the guard clause and at the directory loop, they are a value Config held
\* while no update was under way (never the root of an update whose directory
\* list was still to be written), and the result is the one that view gives.
C12_ResolutionSeesOneConfigSnapshot ==
    \A k \in 1..Len(resolving) :
        resolving[k].pc = "done"
        => /\ resolving[k].checked # None
           /\ Unwrap(resolving[k].checked) \in held
           /\ resolving[k].probed # None
                => resolving[k].probed = resolving[k].checked
           /\ resolving[k].result =
                Some(find_matching_partial(Unwrap(resolving[k].checked),
                                           element, fs).result)

\* C12 witness: a resolution called while the update held the guard with the
\* root written and the directory list not yet, has finished on the fully
\* initialized Config and resolved the partial.
C12_Witness ==
    \E k \in 1..Len(resolving) :
        /\ resolving[k].pc = "done"
        /\ resolving[k].arrived = "dirs"
        /\ resolving[k].checked =
              Some(ConfigValues(<< AbsPath(<<"w", "a">>) >>, Some(AbsPath(<<"w">>))))
        /\ resolving[k].probed = resolving[k].checked
        /\ Unwrap(resolving[k].result) # None
        /\ updating.pc = "done"

(***************************************************************************)
(* SpecContains: contains_position applied to every node span and cursor   *)
(***************************************************************************)

\* how a contains_position call ends: the bool it returns, or the panic of an
\* overflowing addition
Answer(value) == [overflowed |-> FALSE, value |-> value]
Overflowed == [overflowed |-> TRUE, value |-> FALSE]

\* spans of documents of up to U32_MAX lines and columns, and no span
NodeSpans == SpansOver(1..U32_MAX, 1..U32_MAX) \cup {None}

\* every lsp_types::Position: line and character from 0 to U32_MAX
AllPositions == PositionsOver(1..(U32_MAX + 1), 1..(U32_MAX + 1))

InitContains ==
    /\ \E sp \in NodeSpans : tree = MkNode("Text", sp, None)
    /\ position = None
    /\ chain = None
    /\ contained = None
    /\ IdleMatch
    /\ IdlePartial
    /\ IdleServer
    /\ IdleLock

\* node.contains_position(&position), in a build with or without overflow
\* checks
ContainsPosition ==
    /\ position = None
    /\ \E p \in AllPositions : \E overflow_checks \in BOOLEAN :
        /\ position' = Some(p)
        /\ contained' =
              IF overflow_checks /\ contains_position_overflows(tree, p)
              THEN Some(Overflowed)
              ELSE Some(Answer(contains_position(tree, p)))
    /\ UNCHANGED <<tree, chain, matchVars, partialVars, serverVars, lockVars>>

NextContains == ContainsPosition

SpecContains == InitContains /\ [][NextContains]_vars

\* the cursor in the one-based coordinates of the spans
OneBased(pos) == Point(pos.line + 1, pos.character + 1)

\* C13: contains_position is true exactly when the node has a span, the line
\* of the cursor plus 1 lies from the start line to the end line and its
\* character plus 1 lies from the start column to the end column, each axis
\* on its own and both ends included; a node without a span contains no
\* position.
C13_ContainsPositionIsLineAndColumnRange ==
    contained # None
    => LET node == tree
           cursor == OneBased(Unwrap(position))
       IN /\ (contained = Some(Answer(TRUE)))
             <=> /\ node.position # None
                 /\ cursor.line \in
                      Unwrap(node.position).start.line .. Unwrap(node.position).end.line
                 /\ cursor.column \in
                      Unwrap(node.position).start.column .. Unwrap(node.position).end.column
          /\ node.position = None => contained = Some(Answer(FALSE))

\* C13 witness: a span of several lines contains the cursor that stands on
\* its end point.
C13_Witness ==
    /\ contained = Some(Answer(TRUE))
    /\ LET sp == Unwrap(tree.position)
       IN /\ sp.start.line < sp.end.line
          /\ sp.start.column <= sp.end.column
          /\ OneBased(Unwrap(position)) = sp.end

====
